---- MODULE Spec2Model ----
(***************************************************************************)
(* Index-build coordination core (IndexCoord): the coordinator of          *)
(* internal/indexcoord, its metadata table, worker pool, admission queue,  *)
(* assignment loop, metadata watch loop, node watch loop and recycle loop. *)
(***************************************************************************)
EXTENDS Integers, Sequences, FiniteSets, TLC

\* ------------------------------------------------------------------ bounds
MaxBuildID == 2
MaxNodes == 2
MaxVersion == 2
MaxHandlers == 2
MaxWatch == 2
MaxIndexID == 2
MaxPaths == 1
MaxQueue == 2
MaxFaults == 1
MaxStaleVersion == 10
MaxStale == 1
MaxIDs == 2

\* ------------------------------------------------------- program constants
taskLimit == 20

BuildIDs == 1..MaxBuildID
Nodes == 1..MaxNodes
Handlers == 1..MaxHandlers
IndexIDs == 1..MaxIndexID
Requests == [IndexID : IndexIDs, DataPaths : 1..MaxPaths]
\* GetIndexStatesRequest.IndexBuildIDs: up to MaxIDs ids, repeated or not
IdSeqs == UNION {[1..n -> BuildIDs] : n \in 0..MaxIDs}

VARIABLES
    etcd,               \* registry: "indexes/{IndexBuildID}" -> record with its revision
    indexBuildID2Meta,  \* metaTable cache: IndexBuildID -> record with its revision
    watchChan,          \* registry prefix watch on "indexes": events not yet processed
    idAllocator,        \* next IndexBuildID the allocator hands out
    handlers,           \* one BuildIndex call per handler: where it stands
    IndexAddQueue,      \* sched.IndexAddQueue: admissions in flight, FIFO
    dropCleanup,        \* IndexIDs whose DropIndex background cleanup has not run yet
    okReturns,          \* history: successful BuildIndex returns since the index's last drop
    droppedReturns,     \* history: successful BuildIndex returns of calls a DropIndex overlapped
    sessions,           \* registry: live IndexNode sessions
    departed,           \* history: ServerIDs whose session has ended
    lostVer,            \* history: the Version a task had when its worker's session ended
    eventChan,          \* session events not yet processed by watchNodeLoop
    adding,             \* ServerIDs with a background AddNode in flight
    nodeClients,        \* nodeManager: ServerIDs in the pool, in insertion order
    priority,           \* nodeManager.pq: priority of each pooled ServerID
    assign,             \* assignTaskLoop: position in the current tick
    recycle,            \* recycleUnusedIndexFiles: position in the current tick
    workers,            \* CreateIndex requests accepted by workers and not yet committed
    blobs,              \* blob store: keys {IndexBuildID}/{Version}/...
    stateCode,          \* IndexCoord.stateCode
    initCall,           \* IndexCoord.Init: where the call stands and what it returned
    tsLoop,             \* the allocator heartbeat goroutine: notStarted, running or returned
    server,             \* datacoord Server: isServing, meta, segmentManager, cluster, flushCh
    saveCall,           \* the SaveBinlogPaths call in flight: where it stands, what it did
    dcResp,             \* the response of the last datacoord RPC that returned
    faults,             \* registry failures met so far (bounded by MaxFaults)
    resp                \* the response of the last client RPC that returned

vars == <<etcd, indexBuildID2Meta, watchChan, idAllocator, handlers, IndexAddQueue,
          dropCleanup, okReturns, droppedReturns, sessions, departed, lostVer, eventChan,
          adding,
          nodeClients, priority, assign, recycle, workers, blobs, stateCode, initCall, tsLoop,
          server, saveCall, dcResp,
          faults, resp>>

metaVars == <<etcd, indexBuildID2Meta, watchChan>>
admitVars == <<idAllocator, handlers, IndexAddQueue, okReturns, droppedReturns>>
nodeVars == <<sessions, departed, lostVer, eventChan, adding, nodeClients, priority>>
dcVars == <<server, saveCall, dcResp>>
lifeVars == <<initCall, tsLoop, dcVars>>

\* ------------------------------------------------------------ task records
NoMeta == [absent |-> TRUE]

NewMeta(req, id) ==
    [IndexBuildID |-> id, Req |-> req, State |-> "Unissued", Version |-> 0,
     NodeID |-> 0, MarkDeleted |-> FALSE, Recycled |-> FALSE,
     IndexFilePaths |-> {}, revision |-> 1]

\* A PUT event of the prefix watch: the key's version and the value written.
\* finBy is history: the worker whose commit wrote Finished with this event (0: none).
PutEvent(rec, by) ==
    [Type |-> "PUT", IndexBuildID |-> rec.IndexBuildID, Revision |-> rec.revision,
     NodeID |-> rec.NodeID, finBy |-> by]

\* The registry, the cache and the watch channel, threaded through one handler.
Cur == [e |-> etcd, m |-> indexBuildID2Meta, w |-> watchChan]

Commit(S) ==
    /\ etcd' = S.e
    /\ indexBuildID2Meta' = S.m
    /\ watchChan' = S.w

\* The registry answers a write (regOk), or fails it: a conflict that outlasts the
\* bounded retries, or a transport error.
Registry(regOk) ==
    IF regOk THEN faults' = faults
    ELSE faults < MaxFaults /\ faults' = faults + 1

\* Room in the watch channel for n more events.
CanWrite(n) == Len(watchChan) + n <= MaxWatch

\* ------------------------------------------------------------- metaTable
\* saveIndexMeta: compare-and-swap on the record's registry revision; on success the
\* cache takes the new revision (write-through) and the watch sees a PUT.
CasOk(S, rec) ==
    /\ S.e[rec.IndexBuildID] # NoMeta
    /\ S.e[rec.IndexBuildID].revision = rec.revision

Save(S, rec) ==
    LET new == [rec EXCEPT !.revision = @ + 1]
        id == rec.IndexBuildID
    IN  [e |-> [S.e EXCEPT ![id] = new],
         m |-> [S.m EXCEPT ![id] = new],
         w |-> Append(S.w, PutEvent(new, 0))]

\* The record a metaTable write starts from: the cached one, or after a failed
\* compare-and-swap the one reloaded from the registry for the retry.
WriteBase(S, id) ==
    IF CasOk(S, S.m[id]) THEN S.m[id] ELSE S.e[id]

\* A metaTable write can go through: the record is cached and still in the registry,
\* and the registry answers (regOk; FALSE: conflict after the bounded retries, or a
\* transport error).
Writable(S, id, regOk) ==
    /\ regOk
    /\ S.m[id] # NoMeta
    /\ S.e[id] # NoMeta

HasSameReqIDs(m, req) ==
    {id \in BuildIDs : m[id] # NoMeta /\ ~m[id].MarkDeleted /\ m[id].Req = req}

AddTask(S, req, id) ==
    LET new == NewMeta(req, id)
    IN  [e |-> [S.e EXCEPT ![id] = new],
         m |-> [S.m EXCEPT ![id] = new],
         w |-> Append(S.w, PutEvent(new, 0))]

AddTaskOk(S, id, regOk) ==
    regOk /\ S.m[id] = NoMeta /\ S.e[id] = NoMeta

UpdateVersion(S, id, regOk) ==
    IF Writable(S, id, regOk)
    THEN Save(S, [WriteBase(S, id) EXCEPT !.Version = @ + 1])
    ELSE S

BuildIndexMeta(S, id, nodeID, regOk) ==
    IF Writable(S, id, regOk)
    THEN Save(S, [WriteBase(S, id) EXCEPT !.State = "InProgress", !.NodeID = nodeID])
    ELSE S

UpdateRecycleState(S, id, regOk) ==
    IF Writable(S, id, regOk)
    THEN Save(S, [WriteBase(S, id) EXCEPT !.Recycled = TRUE])
    ELSE S

\* The records MarkIndexAsDeleted has to write: those of the index not yet marked.
ToMark(m, indexID) ==
    {id \in BuildIDs : m[id] # NoMeta /\ m[id].Req.IndexID = indexID /\ ~m[id].MarkDeleted}

RECURSIVE MarkAll(_, _)
MarkAll(S, ids) ==
    IF ids = {} THEN S
    ELSE LET id == CHOOSE x \in ids : \A y \in ids : x <= y
             S1 == IF S.e[id] # NoMeta
                   THEN Save(S, [WriteBase(S, id) EXCEPT !.MarkDeleted = TRUE])
                   ELSE S
         IN  MarkAll(S1, ids \ {id})

MarkIndexAsDeleted(S, indexID) == MarkAll(S, ToMark(S.m, indexID))

\* The DELETE event that follows is only logged by watchMetaLoop: it is not queued.
DeleteIndex(S, id) ==
    [e |-> [S.e EXCEPT ![id] = NoMeta],
     m |-> [S.m EXCEPT ![id] = NoMeta],
     w |-> S.w]

StateOf(m, id) == IF m[id] = NoMeta THEN "IndexStateNone" ELSE m[id].State

GetIndexStates(m, ids) == [k \in 1..Len(ids) |-> StateOf(m, ids[k])]

GetIndexFilePathInfoOk(m, id) == m[id] # NoMeta /\ m[id].State = "Finished"

GetUnassignedTasks(m, serverIDs) ==
    {id \in BuildIDs :
        /\ m[id] # NoMeta
        /\ \/ m[id].State = "Unissued"
           \/ m[id].State = "InProgress" /\ m[id].NodeID \notin serverIDs}

GetUnusedIndexFiles(m) ==
    {id \in BuildIDs :
        /\ m[id] # NoMeta
        /\ \/ m[id].MarkDeleted
           \/ m[id].Version > 1 /\ ~m[id].Recycled}

\* LoadMetaFromETCD(id, revision): nothing to do when the cache already holds that
\* revision; otherwise the record is reloaded from the registry.
NeedsReload(S, ev) ==
    /\ S.e[ev.IndexBuildID] # NoMeta
    /\ \/ S.m[ev.IndexBuildID] = NoMeta
       \/ S.m[ev.IndexBuildID].revision < ev.Revision

\* ... and the caller is told whether the reload took the task to Finished.
LoadReportsFinished(S, ev) ==
    /\ NeedsReload(S, ev)
    /\ S.e[ev.IndexBuildID].State = "Finished"
    /\ \/ S.m[ev.IndexBuildID] = NoMeta
       \/ S.m[ev.IndexBuildID].State # "Finished"

LoadMetaFromETCD(S, ev) ==
    IF NeedsReload(S, ev)
    THEN [S EXCEPT !.m[ev.IndexBuildID] = S.e[ev.IndexBuildID]]
    ELSE S

\* ------------------------------------------------------------ nodeManager
InPool(nc, id) == \E k \in 1..Len(nc) : nc[k] = id

\* PeekClient: the pooled worker of lowest priority, the earliest inserted among
\* equals; 0 (no client) when the pool is empty.
PeekClient(nc, pq) ==
    IF Len(nc) = 0 THEN 0
    ELSE LET k == CHOOSE i \in 1..Len(nc) :
                     \A j \in 1..Len(nc) :
                         \/ pq[nc[i]] < pq[nc[j]]
                         \/ pq[nc[i]] = pq[nc[j]] /\ i <= j
         IN  nc[k]

IncPriority(nc, pq, id, delta) ==
    IF InPool(nc, id) THEN [pq EXCEPT ![id] = @ + delta] ELSE pq

RemoveFromSeq(nc, id) == SelectSeq(nc, LAMBDA x : x # id)

\* ------------------------------------------------------- session registry
\* An IndexNode registers its session (ServerIDs are never reused).
NodeJoin(n) ==
    /\ n \notin sessions
    /\ n \notin departed
    /\ sessions' = sessions \cup {n}
    /\ eventChan' = Append(eventChan, [EventType |-> "SessionAddEvent", ServerID |-> n])
    /\ UNCHANGED <<metaVars, admitVars, dropCleanup, departed, lostVer, adding, nodeClients,
                   priority, assign, recycle, workers, blobs, stateCode, faults, resp, lifeVars>>

\* Its session ends (lease expired or node stopped).
NodeLeave(n) ==
    /\ n \in sessions
    /\ sessions' = sessions \ {n}
    /\ departed' = departed \cup {n}
    /\ lostVer' = [id \in BuildIDs |->
           IF etcd[id] # NoMeta /\ etcd[id].State = "InProgress" /\ etcd[id].NodeID = n
           THEN etcd[id].Version ELSE lostVer[id]]
    /\ eventChan' = Append(eventChan, [EventType |-> "SessionDelEvent", ServerID |-> n])
    /\ UNCHANGED <<metaVars, admitVars, dropCleanup, adding, nodeClients,
                   priority, assign, recycle, workers, blobs, stateCode, faults, resp, lifeVars>>

\* watchNodeLoop, one event: an add is handed to a background goroutine, a delete
\* removes the node at once.
WatchNodeStep ==
    /\ eventChan # <<>>
    /\ LET event == Head(eventChan)
       IN  /\ eventChan' = Tail(eventChan)
           /\ IF event.EventType = "SessionAddEvent"
              THEN /\ adding' = adding \cup {event.ServerID}
                   /\ UNCHANGED <<nodeClients, priority>>
              ELSE /\ nodeClients' = RemoveFromSeq(nodeClients, event.ServerID)
                   /\ priority' = [priority EXCEPT ![event.ServerID] = 0]
                   /\ UNCHANGED adding
    /\ UNCHANGED <<metaVars, admitVars, dropCleanup, sessions, departed, lostVer,
                   assign, recycle, workers, blobs, stateCode, faults, resp, lifeVars>>

\* The background AddNode of a SessionAddEvent (or of Init's snapshot) completes:
\* dial, then insert with priority 0; a pooled id is left alone.
AddNodeDone(n, dialOk) ==
    /\ n \in adding
    /\ adding' = adding \ {n}
    /\ IF dialOk /\ ~InPool(nodeClients, n)
       THEN /\ nodeClients' = Append(nodeClients, n)
            /\ priority' = [priority EXCEPT ![n] = 0]
       ELSE UNCHANGED <<nodeClients, priority>>
    /\ UNCHANGED <<metaVars, admitVars, dropCleanup, sessions, departed, lostVer, eventChan,
                   assign, recycle, workers, blobs, stateCode, faults, resp, lifeVars>>

\* ---------------------------------------------------------- RPC responses
NoResp == [rpc |-> "none", isNil |-> FALSE, err |-> FALSE, ErrorCode |-> "Success",
           Reason |-> "", healthy |-> TRUE]

\* A response with its status pair; healthy is history: isHealthy() when the call began.
Resp(rpc, code, reason, healthy) ==
    [rpc |-> rpc, isNil |-> FALSE, err |-> FALSE, ErrorCode |-> code,
     Reason |-> reason, healthy |-> healthy]

\* return nil, err
NilResp(rpc, healthy) ==
    [rpc |-> rpc, isNil |-> TRUE, err |-> TRUE, ErrorCode |-> "none",
     Reason |-> "", healthy |-> healthy]

isHealthy == stateCode = "Healthy"

UpdateStateCode(code) ==
    /\ stateCode' = code
    /\ UNCHANGED <<metaVars, admitVars, dropCleanup, nodeVars, assign, recycle,
                   workers, blobs, faults, resp, lifeVars>>

\* ------------------------------------------------------------------ tsLoop
\* One tick of the allocator heartbeat: UpdateID answers, or it fails and the
\* goroutine returns.
TsLoopTick(ok) ==
    /\ tsLoop = "running"
    /\ tsLoop' = IF ok THEN "running" ELSE "returned"
    /\ UNCHANGED <<metaVars, admitVars, dropCleanup, nodeVars, assign, recycle, workers,
                   blobs, stateCode, faults, resp, initCall, dcVars>>

\* ------------------------------------------------------------- BuildIndex
NoReq == [IndexID |-> 0, DataPaths |-> 0]
IdleHandler == [pc |-> "idle", req |-> NoReq, dropped |-> FALSE, healthy |-> TRUE]

\* A successful return is remembered unless the index was dropped while the call was
\* in flight.
Returned(h, id) ==
    IF handlers[h].dropped THEN okReturns
    ELSE okReturns \cup {[req |-> handlers[h].req, id |-> id]}

\* BuildIndex up to the HasSameReq check: an existing id is returned at once,
\* otherwise the admission is built and the call goes on to enqueue it.
BuildIndexCheck(h, req) ==
    /\ handlers[h].pc = "idle"
    /\ LET found == HasSameReqIDs(indexBuildID2Meta, req)
       IN  IF found # {}
           THEN /\ \E id \in found :
                       okReturns' = okReturns \cup {[req |-> req, id |-> id]}
                /\ UNCHANGED handlers
           ELSE /\ handlers' = [handlers EXCEPT ![h] =
                        [pc |-> "enqueue", req |-> req, dropped |-> FALSE,
                         healthy |-> isHealthy]]
                /\ UNCHANGED okReturns
    /\ UNCHANGED <<metaVars, idAllocator, IndexAddQueue, droppedReturns, dropCleanup,
                   nodeVars, assign, recycle, workers, blobs, stateCode, faults, lifeVars>>

\* History: the successful return of a call that a successful DropIndex of its
\* index overlapped.
ReturnedDropped(h, id) ==
    IF handlers[h].dropped
    THEN droppedReturns \cup {[req |-> handlers[h].req, id |-> id]}
    ELSE droppedReturns

\* fn(): the request context is done, or the admission is enqueued (the scheduler
\* allocates its IndexBuildID on enqueue).
BuildIndexEnqueue(h, ctxDone) ==
    /\ handlers[h].pc = "enqueue"
    /\ IF ctxDone
       THEN /\ handlers' = [handlers EXCEPT ![h] = IdleHandler]
            /\ UNCHANGED <<IndexAddQueue, idAllocator>>
       ELSE /\ Len(IndexAddQueue) < MaxQueue
            /\ idAllocator <= MaxBuildID
            /\ IndexAddQueue' = Append(IndexAddQueue,
                   [h |-> h, req |-> handlers[h].req, indexBuildID |-> idAllocator,
                    persisted |-> FALSE])
            /\ idAllocator' = idAllocator + 1
            /\ handlers' = [handlers EXCEPT ![h].pc = "wait"]
    /\ UNCHANGED <<metaVars, dropCleanup, okReturns, droppedReturns, nodeVars, assign,
                   recycle, workers, blobs, stateCode, faults, lifeVars>>

\* The scheduler executes the admission at the head of the queue: AddTask persists
\* the record; a failure ends the call with an error.
SchedExecute(regOk) ==
    /\ Registry(regOk)
    /\ IndexAddQueue # <<>>
    /\ ~Head(IndexAddQueue).persisted
    /\ CanWrite(1)
    /\ LET t == Head(IndexAddQueue)
       IN  IF AddTaskOk(Cur, t.indexBuildID, regOk)
           THEN /\ Commit(AddTask(Cur, t.req, t.indexBuildID))
                /\ IndexAddQueue' = [IndexAddQueue EXCEPT ![1].persisted = TRUE]
                /\ UNCHANGED handlers
           ELSE /\ IndexAddQueue' = Tail(IndexAddQueue)
                /\ handlers' = [handlers EXCEPT ![t.h] = IdleHandler]
                /\ UNCHANGED metaVars
    /\ UNCHANGED <<idAllocator, dropCleanup, okReturns, droppedReturns, nodeVars, assign,
                   recycle, workers, blobs, stateCode, lifeVars>>

\* The admission is done: WaitToFinish returns and BuildIndex answers with the id.
SchedFinish ==
    /\ IndexAddQueue # <<>>
    /\ Head(IndexAddQueue).persisted
    /\ LET t == Head(IndexAddQueue)
       IN  /\ IndexAddQueue' = Tail(IndexAddQueue)
           /\ okReturns' = Returned(t.h, t.indexBuildID)
           /\ droppedReturns' = ReturnedDropped(t.h, t.indexBuildID)
           /\ handlers' = [handlers EXCEPT ![t.h] = IdleHandler]
    /\ UNCHANGED <<metaVars, idAllocator, dropCleanup, nodeVars, assign, recycle,
                   workers, blobs, stateCode, faults, lifeVars>>

\* -------------------------------------------------------------- DropIndex
\* MarkIndexAsDeleted, then the answer; the cleanup of the admission queue is left
\* to a background goroutine.
DropIndex(indexID, regOk) ==
    /\ Registry(regOk)
    /\ IF regOk
       THEN /\ CanWrite(Cardinality(ToMark(indexBuildID2Meta, indexID)))
            /\ Commit(MarkIndexAsDeleted(Cur, indexID))
            /\ dropCleanup' = dropCleanup \cup {indexID}
            /\ okReturns' = {r \in okReturns : r.req.IndexID # indexID}
            /\ handlers' = [h \in Handlers |->
                   IF handlers[h].pc # "idle" /\ handlers[h].req.IndexID = indexID
                   THEN [handlers[h] EXCEPT !.dropped = TRUE]
                   ELSE handlers[h]]
       ELSE UNCHANGED <<metaVars, dropCleanup, okReturns, handlers>>
    /\ UNCHANGED <<idAllocator, IndexAddQueue, droppedReturns, nodeVars, assign, recycle,
                   workers, blobs, stateCode, lifeVars>>

RECURSIVE DeleteAll(_, _)
DeleteAll(S, ids) ==
    IF ids = {} THEN S
    ELSE LET id == CHOOSE x \in ids : \A y \in ids : x <= y
         IN  DeleteAll(DeleteIndex(S, id), ids \ {id})

\* tryToRemoveUselessIndexAddTask: the admissions of the index still in the queue.
UselessAddTasks(q, indexID) ==
    {k \in 1..Len(q) : q[k].req.IndexID = indexID}

\* The background goroutine of DropIndex: the queued admissions of the index are
\* cancelled and their records deleted.
DropCleanup(indexID) ==
    /\ indexID \in dropCleanup
    /\ LET ks == UselessAddTasks(IndexAddQueue, indexID)
           ids == {IndexAddQueue[k].indexBuildID : k \in ks}
           hs == {IndexAddQueue[k].h : k \in ks}
       IN  /\ CanWrite(Cardinality({id \in ids : etcd[id] # NoMeta}))
           /\ Commit(DeleteAll(Cur, ids))
           /\ IndexAddQueue' = SelectSeq(IndexAddQueue, LAMBDA t : t.req.IndexID # indexID)
           /\ handlers' = [h \in Handlers |-> IF h \in hs THEN IdleHandler ELSE handlers[h]]
    /\ dropCleanup' = dropCleanup \ {indexID}
    /\ UNCHANGED <<idAllocator, okReturns, droppedReturns, nodeVars, assign, recycle,
                   workers, blobs, stateCode, faults, lifeVars>>

\* --------------------------------------------------------- assignTaskLoop
IdleAssign == [pc |-> "idle", metas |-> <<>>, index |-> 0, nodeID |-> 0]

\* The tick's snapshot of a task: what the loop reads from it later.
Snapshot(m, id) == [IndexBuildID |-> id, Version |-> m[id].Version]

\* A loop that takes the snapshot in whatever order the metaTable returned it.
AnyOrder(snaps) ==
    {q \in [1..Cardinality(snaps) -> snaps] :
        \A i, j \in DOMAIN q : i # j => q[i] # q[j]}

\* sort.Slice by Version: every order of the snapshot that is ascending in Version.
SortedByVersion(snaps) ==
    {q \in [1..Cardinality(snaps) -> snaps] :
        /\ \A i, j \in DOMAIN q : i # j => q[i] # q[j]
        /\ \A i, j \in DOMAIN q : i < j => q[i].Version <= q[j].Version}

\* len(i.nodeManager.nodeClients) <= 0
NoNodeAvailable == Len(nodeClients) <= 0

\* A loop that goes on with whatever PeekClient returned.
ClientNeverMissing(nodeID) == FALSE

\* builderClient == nil
ClientMissing(nodeID) == nodeID = 0

\* CreateIndexRequest.Version
ReqVersion(meta) == meta.Version + 1

\* index > taskLimit
LimitReached(index) == index > taskLimit

\* The loop goes on to the next task of the tick, or the tick is over.
NextTask(a) ==
    IF Len(a.metas) <= 1 THEN IdleAssign
    ELSE [pc |-> "loop", metas |-> Tail(a.metas), index |-> a.index + 1, nodeID |-> 0]

\* A tick begins: the live sessions, the pool check, the sorted unassigned tasks.
AssignTick(sessOk) ==
    /\ assign.pc = "idle"
    /\ LET serverIDs == IF sessOk THEN sessions ELSE {}
       IN  IF NoNodeAvailable
           THEN UNCHANGED assign
           ELSE \E metas \in SortedByVersion(
                        {Snapshot(indexBuildID2Meta, id) :
                            id \in GetUnassignedTasks(indexBuildID2Meta, serverIDs)}) :
                    assign' = IF Len(metas) = 0 THEN IdleAssign
                              ELSE [pc |-> "loop", metas |-> metas, index |-> 0, nodeID |-> 0]
    /\ UNCHANGED <<metaVars, admitVars, dropCleanup, nodeVars, recycle, workers,
                   blobs, stateCode, faults, resp, lifeVars>>

\* The bound on a task's Version: MaxVersion for task 1 and one re-assignment more
\* for each later task, so that a task loaded as task 2 can go through two stale
\* versions.
VersionCap(id) == MaxVersion + (id - 1)

\* The version the registry holds for a task stays within the model's bound.
BelowMaxVersion(id) == IF etcd[id] = NoMeta THEN TRUE ELSE etcd[id].Version < VersionCap(id)

\* A loop that takes the version bump back when the worker refuses the task.
RollBackVersion(S, id) ==
    IF S.e[id] # NoMeta /\ S.m[id] # NoMeta
    THEN Save(S, [WriteBase(S, id) EXCEPT !.Version = @ - 1])
    ELSE S

\* The record written as assigned to the peeked worker although the RPC failed.
AssignedDespiteFailure(S, id) ==
    BuildIndexMeta(S, id, PeekClient(nodeClients, priority), TRUE)

\* !i.assignTask(...): the task is left as it is and the loop continues.
AfterRpcFailure(S, id) == S

\* One task of the tick up to the worker's answer: UpdateVersion (an error is only
\* logged), PeekClient, the CreateIndex RPC.
AssignDispatch(regOk, rpcOk) ==
    /\ Registry(regOk)
    /\ assign.pc = "loop"
    /\ LET meta == Head(assign.metas)
           id == meta.IndexBuildID
           S1 == UpdateVersion(Cur, id, regOk)
           nodeID == PeekClient(nodeClients, priority)
       IN  /\ BelowMaxVersion(id)
           /\ meta.Version < VersionCap(id)
           /\ CanWrite(1)
           /\ IF ClientMissing(nodeID)
              THEN Commit(S1) /\ assign' = IdleAssign /\ UNCHANGED workers
              ELSE IF ~rpcOk
              THEN /\ Commit(AfterRpcFailure(S1, id))
                   /\ assign' = NextTask(assign)
                   /\ UNCHANGED workers
              ELSE /\ Commit(S1)
                   /\ workers' = workers \cup
                        {[node |-> nodeID, id |-> id, ver |-> ReqVersion(meta)]}
                   /\ assign' = [assign EXCEPT !.pc = "commit", !.nodeID = nodeID]
    /\ UNCHANGED <<admitVars, dropCleanup, nodeVars, recycle, blobs, stateCode, resp, lifeVars>>

\* The RPC succeeded: BuildIndex on the record (an error is only logged),
\* IncPriority, the limit check.
AssignCommit(regOk) ==
    /\ Registry(regOk)
    /\ assign.pc = "commit"
    /\ CanWrite(1)
    /\ LET id == Head(assign.metas).IndexBuildID
       IN  /\ Commit(BuildIndexMeta(Cur, id, assign.nodeID, regOk))
           /\ priority' = IncPriority(nodeClients, priority, assign.nodeID, 1)
           /\ assign' = IF LimitReached(assign.index) THEN IdleAssign ELSE NextTask(assign)
    /\ UNCHANGED <<admitVars, dropCleanup, sessions, departed, lostVer, eventChan, adding,
                   nodeClients, recycle, workers, blobs, stateCode, resp, lifeVars>>

\* ----------------------------------------------------------------- worker
\* A registry that takes a worker's commit whatever Version it carries.
CommitAcceptedAnyVersion(t) == etcd[t.id] # NoMeta

\* The worker's commit goes through when the record still carries the version of
\* the request it holds.
CommitAccepted(t) == etcd[t.id] # NoMeta /\ etcd[t.id].Version = t.ver

\* A worker ends a build: the index files are written to the blob store, then the
\* completion fields are committed to the registry.
WorkerCommit(t, result) ==
    /\ t \in workers
    /\ CanWrite(1)
    /\ workers' = workers \ {t}
    /\ blobs' = IF result = "Finished" THEN blobs \cup {<<t.id, t.ver>>} ELSE blobs
    /\ IF CommitAccepted(t)
       THEN LET new == [etcd[t.id] EXCEPT
                            !.State = result,
                            !.IndexFilePaths = IF result = "Finished"
                                               THEN {<<t.id, t.ver>>} ELSE {},
                            !.revision = @ + 1]
            IN  /\ etcd' = [etcd EXCEPT ![t.id] = new]
                /\ watchChan' = Append(watchChan,
                       PutEvent(new, IF result = "Finished" THEN t.node ELSE 0))
       ELSE UNCHANGED <<etcd, watchChan>>
    /\ UNCHANGED <<indexBuildID2Meta, admitVars, dropCleanup, nodeVars, assign,
                   recycle, stateCode, faults, resp, lifeVars>>

\* ---------------------------------------------------------- watchMetaLoop
WatchMetaStep ==
    /\ watchChan # <<>>
    /\ LET ev == Head(watchChan)
           S == [Cur EXCEPT !.w = Tail(watchChan)]
       IN  IF ev.Type = "PUT"
           THEN /\ Commit(LoadMetaFromETCD(S, ev))
                /\ priority' = IF LoadReportsFinished(S, ev)
                               THEN IncPriority(nodeClients, priority, ev.NodeID, -1)
                               ELSE priority
           ELSE /\ Commit(S)
                /\ UNCHANGED priority
    /\ UNCHANGED <<admitVars, dropCleanup, sessions, departed, lostVer, eventChan, adding,
                   nodeClients, assign, recycle, workers, blobs, stateCode, faults, resp, lifeVars>>

\* ------------------------------------------------------------ blob store
DigitChar == <<"0", "1", "2", "3", "4", "5", "6", "7", "8", "9">>

\* strconv.Itoa, as a sequence of characters
RECURSIVE Itoa(_)
Itoa(n) ==
    IF n < 10 THEN <<DigitChar[n + 1]>>
    ELSE Itoa(n \div 10) \o <<DigitChar[(n % 10) + 1]>>

\* The key of the index files of one version of a task: {IndexBuildID}/{Version}/
BlobKey(b) == Itoa(b[1]) \o <<"/">> \o Itoa(b[2]) \o <<"/">>

HasPrefix(str, prefix) ==
    /\ Len(prefix) <= Len(str)
    /\ SubSeq(str, 1, Len(prefix)) = prefix

\* kv.RemoveWithPrefix, when the blob store answers
RemoveWithPrefix(bs, prefix) == {b \in bs : ~HasPrefix(BlobKey(b), prefix)}

\* The prefix of the recycle loop for a dropped task, and for one stale version.
DeletedPrefix(id) == Itoa(id)
VersionPrefix(id, j) == Itoa(id) \o <<"/">> \o Itoa(j)

\* ------------------------------------------------ recycleUnusedIndexFiles
IdleRecycle == [pc |-> "idle", metas |-> <<>>]

RecycleSnapshot(m, id) ==
    [IndexBuildID |-> id, MarkDeleted |-> m[id].MarkDeleted, Version |-> m[id].Version]

\* GetUnusedIndexFiles(taskLimit): at most limit records, in the order of the map walk.
UnusedSeqs(m, limit) ==
    LET ids == GetUnusedIndexFiles(m)
        n == IF Cardinality(ids) < limit THEN Cardinality(ids) ELSE limit
    IN  {q \in [1..n -> {RecycleSnapshot(m, id) : id \in ids}] :
            \A i, j \in DOMAIN q : i # j => q[i] # q[j]}

RecycleTick ==
    /\ recycle.pc = "idle"
    /\ \E metas \in UnusedSeqs(indexBuildID2Meta, taskLimit) :
           recycle' = IF Len(metas) = 0 THEN IdleRecycle
                      ELSE [pc |-> "loop", metas |-> metas]
    /\ UNCHANGED <<metaVars, admitVars, dropCleanup, nodeVars, assign, workers,
                   blobs, stateCode, faults, resp, lifeVars>>

RECURSIVE RemoveVersions(_, _, _)
RemoveVersions(bs, id, js) ==
    IF js = {} THEN bs
    ELSE LET j == CHOOSE x \in js : TRUE
         IN  RemoveVersions(RemoveWithPrefix(bs, VersionPrefix(id, j)), id, js \ {j})

\* One record of the tick. blobOk: the blob store answers the removal of a dropped
\* task's prefix; okJs: the stale versions whose removal it answers.
RecycleStep(blobOk, okJs, regOk) ==
    /\ Registry(regOk)
    /\ recycle.pc = "loop"
    /\ LET meta == Head(recycle.metas)
           id == meta.IndexBuildID
       IN  /\ CanWrite(1)
           /\ IF meta.MarkDeleted
              THEN /\ blobs' = IF blobOk THEN RemoveWithPrefix(blobs, DeletedPrefix(id))
                               ELSE blobs
                   /\ Commit(DeleteIndex(Cur, id))
              ELSE /\ okJs \subseteq 1..(meta.Version - 1)
                   /\ blobs' = RemoveVersions(blobs, id, okJs)
                   /\ Commit(UpdateRecycleState(Cur, id, regOk))
    /\ recycle' = IF Len(recycle.metas) <= 1 THEN IdleRecycle
                  ELSE [recycle EXCEPT !.metas = Tail(@)]
    /\ UNCHANGED <<admitVars, dropCleanup, nodeVars, assign, workers, stateCode, resp, lifeVars>>

\* ------------------------------------------------------- read-only RPCs
\* A response to ids with whatever came first to hand for each of them.
StatesUnordered(m, ids) == [k \in 1..Len(ids) |-> StateOf(m, ids[Len(ids) + 1 - k])]

\* GetIndexStatesResponse.States: what metaTable.GetIndexStates gave, as it is.
ResponseStates(m, ids) == GetIndexStates(m, ids)

GetIndexStatesRPC(ids) ==
    /\ resp' = [rpc |-> "GetIndexStates", isNil |-> FALSE, err |-> FALSE,
                ErrorCode |-> "Success", Reason |-> "", healthy |-> isHealthy,
                IndexBuildIDs |-> ids, States |-> ResponseStates(indexBuildID2Meta, ids)]
    /\ UNCHANGED <<metaVars, admitVars, dropCleanup, nodeVars, assign, recycle,
                   workers, blobs, stateCode, faults, lifeVars>>

\* The first id without a Finished record ends the call with (nil, err).
GetIndexFilePathsRPC(ids) ==
    /\ resp' = IF \A k \in 1..Len(ids) : GetIndexFilePathInfoOk(indexBuildID2Meta, ids[k])
               THEN Resp("GetIndexFilePaths", "Success", "", isHealthy)
               ELSE NilResp("GetIndexFilePaths", isHealthy)
    /\ UNCHANGED <<metaVars, admitVars, dropCleanup, nodeVars, assign, recycle,
                   workers, blobs, stateCode, faults, lifeVars>>

\* What one IndexNode made of the GetMetrics the fan-out sent it.
NodeOutcomes == {"ok", "rpcError", "badStatus", "undecodable"}

\* nodeManager.getMetrics: one result per pooled client, in the order the fan-out
\* collected them.
NodesMetrics(nc) ==
    {q \in [1..Len(nc) -> [node : {nc[k] : k \in 1..Len(nc)}, outcome : NodeOutcomes]] :
        \A a, b \in 1..Len(nc) : a # b => q[a].node # q[b].node}

\* The entry getSystemInfoMetrics appends for one result (Name 0: the empty name).
ConnectedNode(nm) ==
    IF nm.outcome = "rpcError"
    THEN [HasError |-> TRUE, ErrorReason |-> "rpc error", Name |-> 0, infos |-> 0]
    ELSE IF nm.outcome = "badStatus"
    THEN [HasError |-> TRUE, ErrorReason |-> "status reason", Name |-> nm.node, infos |-> 0]
    ELSE IF nm.outcome = "undecodable"
    THEN [HasError |-> TRUE, ErrorReason |-> "unmarshal error", Name |-> nm.node, infos |-> 0]
    ELSE [HasError |-> FALSE, ErrorReason |-> "", Name |-> nm.node, infos |-> nm.node]

\* A topology of the workers that answered well only.
ConnectedNodesOkOnly(nms) ==
    LET oks == SelectSeq(nms, LAMBDA nm : nm.outcome = "ok")
    IN  [k \in 1..Len(oks) |-> ConnectedNode(oks[k])]

\* clusterTopology.ConnectedNodes after the loop over nodesMetrics
ConnectedNodes(nms) == [k \in 1..Len(nms) |-> ConnectedNode(nms[k])]

\* getSystemInfoMetrics: the topology is marshalled into the response; a marshal
\* failure answers UnexpectedError with an empty response.
getSystemInfoMetrics(nms, marshalOk) ==
    IF marshalOk
    THEN Resp("GetMetrics", "Success", "", TRUE)
             @@ [nodesMetrics |-> nms, ConnectedNodes |-> ConnectedNodes(nms)]
    ELSE Resp("GetMetrics", "UnexpectedError", "marshal error", TRUE)
             @@ [nodesMetrics |-> nms]

\* metricType: what ParseMetricType makes of the request ("invalid": a parse error).
GetMetricsRPC(metricType, marshalOk) ==
    /\ \E nms \in NodesMetrics(nodeClients) :
           resp' = IF ~isHealthy
                   THEN Resp("GetMetrics", "UnexpectedError", "unhealthy", FALSE)
                   ELSE IF metricType = "invalid"
                   THEN Resp("GetMetrics", "UnexpectedError", "parse error", TRUE)
                   ELSE IF metricType = "system_info"
                   THEN getSystemInfoMetrics(nms, marshalOk)
                   ELSE Resp("GetMetrics", "UnexpectedError", "unimplemented", TRUE)
    /\ UNCHANGED <<metaVars, admitVars, dropCleanup, nodeVars, assign, recycle,
                   workers, blobs, stateCode, faults, lifeVars>>

\* ---------------------------------------------------------- IndexCoord.Init
\* The steps of Init, in the order of the code; "returned" once the call is over.
InitSteps == <<"connect", "sessions", "allocator", "kv", "sched", "healthy">>

\* NewIndexCoord: no Init call yet.
NotCalled == [pc |-> "connect", ok |-> {}, err |-> FALSE]

\* Init returned nil after all its steps.
InitDone == [pc |-> "returned", ok |-> {"connect", "sessions", "allocator", "kv", "sched"},
             err |-> FALSE]

\* An Init that goes on after a step whatever its error.
InitNeverAborts(ok) == FALSE

\* if err != nil { return err }
InitAborts(ok) == ~ok

\* One step of Init is over: the call returns the step's error, or goes on to the
\* next step with the step recorded as succeeded (ok) or not.
AfterStep(step, next, ok) ==
    IF InitAborts(ok)
    THEN [pc |-> "returned", ok |-> initCall.ok, err |-> TRUE]
    ELSE [pc |-> next, ok |-> IF ok THEN initCall.ok \cup {step} ELSE initCall.ok,
          err |-> FALSE]

\* GetNodeTaskStats: the number of unfinished tasks each node holds.
GetNodeTaskStats(m) ==
    [n \in Nodes |-> Cardinality({id \in BuildIDs :
        m[id] # NoMeta /\ m[id].NodeID = n /\ m[id].State # "Finished"})]

\* retry.Do(connectEtcdFn): the registry is reached and NewMetaTable loads its
\* records, or the attempts are used up.
InitConnect(ok) ==
    /\ initCall.pc = "connect"
    /\ UNCHANGED <<tsLoop, dcVars>>
    /\ initCall' = AfterStep("connect", "sessions", ok)
    /\ indexBuildID2Meta' = IF ok THEN etcd ELSE indexBuildID2Meta
    /\ UNCHANGED <<etcd, watchChan, admitVars, dropCleanup, nodeVars, assign, recycle,
                   workers, blobs, stateCode, faults, resp>>

\* GetSessions: an error is logged and Init goes on without sessions; each session
\* of the snapshot gets a background AddNode; the priorities of the pooled nodes
\* are set from the loaded records.
InitSessions(sessOk) ==
    /\ initCall.pc = "sessions"
    /\ UNCHANGED <<tsLoop, dcVars>>
    /\ initCall' = [initCall EXCEPT !.pc = "allocator",
                                    !.ok = IF sessOk THEN @ \cup {"sessions"} ELSE @]
    /\ adding' = IF sessOk THEN adding \cup sessions ELSE adding
    /\ priority' = [n \in Nodes |->
           IF InPool(nodeClients, n) THEN GetNodeTaskStats(indexBuildID2Meta)[n]
           ELSE priority[n]]
    /\ UNCHANGED <<metaVars, admitVars, dropCleanup, sessions, departed, lostVer,
                   eventChan, nodeClients, assign, recycle, workers, blobs, stateCode,
                   faults, resp>>

\* NewTSOKVBase, idAllocator.Initialize, AllocOne: the allocator is usable or not
\* (an unusable key-value base makes Initialize fail).
InitAllocator(ok) ==
    /\ initCall.pc = "allocator"
    /\ UNCHANGED <<tsLoop, dcVars>>
    /\ initCall' = AfterStep("allocator", "kv", ok)
    /\ UNCHANGED <<metaVars, admitVars, dropCleanup, nodeVars, assign, recycle, workers,
                   blobs, stateCode, faults, resp>>

\* miniokv.NewMinIOKV
InitKV(ok) ==
    /\ initCall.pc = "kv"
    /\ UNCHANGED <<tsLoop, dcVars>>
    /\ initCall' = AfterStep("kv", "sched", ok)
    /\ UNCHANGED <<metaVars, admitVars, dropCleanup, nodeVars, assign, recycle, workers,
                   blobs, stateCode, faults, resp>>

\* NewTaskScheduler
InitSched(ok) ==
    /\ initCall.pc = "sched"
    /\ UNCHANGED <<tsLoop, dcVars>>
    /\ initCall' = AfterStep("sched", "healthy", ok)
    /\ UNCHANGED <<metaVars, admitVars, dropCleanup, nodeVars, assign, recycle, workers,
                   blobs, stateCode, faults, resp>>

\* UpdateStateCode(Healthy); return nil
InitHealthy ==
    /\ initCall.pc = "healthy"
    /\ stateCode' = "Healthy"
    /\ UNCHANGED <<tsLoop, dcVars>>
    /\ initCall' = [initCall EXCEPT !.pc = "returned"]
    /\ UNCHANGED <<metaVars, admitVars, dropCleanup, nodeVars, assign, recycle, workers,
                   blobs, faults, resp>>

\* ------------------------------------------------------------ data coordinator
\* The datacoord Server behind its RPCs. meta, segmentManager and cluster are the
\* objects the handlers call; a call is modelled by what it leaves in its object.
MaxSegments == 2
MaxChannels == 1
MaxCollections == 1
MaxFlushCh == 1
MaxAssign == 2

serverNotServingErrMsg == "server is not serving"

\* Everything of the model that is not the data coordinator's.
icVars == <<metaVars, admitVars, dropCleanup, nodeVars, assign, recycle, workers, blobs,
            stateCode, faults, resp, initCall, tsLoop>>

\* A server that takes every call as if it were serving.
NeverClosed(s) == FALSE

\* atomic.LoadInt64(&s.isServing) != ServerStateHealthy
isClosed(s) == s.isServing # "Healthy"

\* No SaveBinlogPaths call in flight.
IdleSave ==
    [pc |-> "idle", req |-> [SegmentID |-> 0, Flushed |-> FALSE], serving |-> FALSE,
     updated |-> FALSE, dropped |-> FALSE, sent |-> FALSE]

\* A datacoord response: its status pair, and as history whether the server was
\* serving when the handler looked, and what a SaveBinlogPaths call did.
DcResp(rpc, code, reason) ==
    [rpc |-> rpc, ErrorCode |-> code, Reason |-> reason,
     serving |-> server.isServing = "Healthy",
     req |-> IdleSave.req, updated |-> FALSE, dropped |-> FALSE, sent |-> FALSE]

NoDcResp ==
    [rpc |-> "none", ErrorCode |-> "Success", Reason |-> "", serving |-> TRUE,
     req |-> IdleSave.req, updated |-> FALSE, dropped |-> FALSE, sent |-> FALSE]

\* The server before it serves: collection 1 is known, segment 1 is growing and
\* managed (a segment that does not exist is "None"), nothing is watched and the flush channel is empty.
ServerInit ==
    [isServing |-> "Initializing",
     meta |-> [collections |-> {1},
               segments |-> [g \in 1..MaxSegments |-> IF g = 1 THEN "Growing" ELSE "None"],
               saved |-> {}],
     segmentManager |-> {1},
     cluster |-> {},
     flushCh |-> <<>>]

\* Server start and stop: the serving state changes.
SetServing(state) ==
    /\ server' = [server EXCEPT !.isServing = state]
    /\ UNCHANGED <<saveCall, dcResp, icVars>>

\* segmentManager.SealAllSegments: the growing segments it manages become sealed.
Flush(ok) ==
    /\ IF isClosed(server)
       THEN server' = server /\ dcResp' = DcResp("Flush", "UnexpectedError", serverNotServingErrMsg)
       ELSE IF ~ok
       THEN server' = server /\ dcResp' = DcResp("Flush", "UnexpectedError", "failed to flush")
       ELSE /\ server' = [server EXCEPT !.meta.segments =
                            [g \in 1..MaxSegments |->
                                IF g \in server.segmentManager /\ server.meta.segments[g] = "Growing"
                                THEN "Sealed" ELSE server.meta.segments[g]]]
            /\ dcResp' = DcResp("Flush", "Success", "")
    /\ UNCHANGED <<saveCall, icVars>>

\* One SegmentIDRequest of AssignSegmentID. loadCollectionFromRootCoord adds the
\* collection to meta; cluster.Watch adds the channel to the watch set;
\* segmentManager.AllocSegment allocates in a managed segment and opens a new
\* growing segment while an id is free.
AssignOne(s, r, out) ==
    IF r.CollectionID \notin s.meta.collections /\ ~out.loadOk THEN s
    ELSE LET s2 == [s EXCEPT !.meta.collections = @ \cup {r.CollectionID},
                             !.cluster = @ \cup {r.ChannelName}]
             free == {g \in 1..MaxSegments : s.meta.segments[g] = "None"}
         IN  IF out.allocOk /\ free # {}
             THEN LET g == CHOOSE x \in free : \A y \in free : x <= y
                  IN  [s2 EXCEPT !.meta.segments[g] = "Growing",
                                 !.segmentManager = @ \cup {g}]
             ELSE s2

RECURSIVE AssignAll(_, _, _)
AssignAll(s, reqs, outs) ==
    IF reqs = <<>> THEN s
    ELSE AssignAll(AssignOne(s, Head(reqs), Head(outs)), Tail(reqs), Tail(outs))

AssignSegmentID(reqs, outs) ==
    /\ Len(outs) = Len(reqs)
    /\ IF isClosed(server)
       THEN server' = server /\ dcResp' = DcResp("AssignSegmentID", "UnexpectedError", serverNotServingErrMsg)
       ELSE /\ server' = AssignAll(server, reqs, outs)
            /\ dcResp' = DcResp("AssignSegmentID", "Success", "")
    /\ UNCHANGED <<saveCall, icVars>>

GetSegmentStates(ids) ==
    /\ dcResp' = IF isClosed(server) THEN DcResp("GetSegmentStates", "UnexpectedError", serverNotServingErrMsg)
                 ELSE DcResp("GetSegmentStates", "Success", "")
    /\ UNCHANGED <<server, saveCall, icVars>>

GetInsertBinlogPaths(g) ==
    /\ dcResp' = IF isClosed(server) THEN DcResp("GetInsertBinlogPaths", "UnexpectedError", serverNotServingErrMsg)
                 ELSE IF server.meta.segments[g] = "None"
                 THEN DcResp("GetInsertBinlogPaths", "UnexpectedError", "segment not found")
                 ELSE DcResp("GetInsertBinlogPaths", "Success", "")
    /\ UNCHANGED <<server, saveCall, icVars>>

GetCollectionStatistics ==
    /\ dcResp' = IF isClosed(server) THEN DcResp("GetCollectionStatistics", "UnexpectedError", serverNotServingErrMsg)
                 ELSE DcResp("GetCollectionStatistics", "Success", "")
    /\ UNCHANGED <<server, saveCall, icVars>>

GetPartitionStatistics ==
    /\ dcResp' = IF isClosed(server) THEN DcResp("GetPartitionStatistics", "UnexpectedError", serverNotServingErrMsg)
                 ELSE DcResp("GetPartitionStatistics", "Success", "")
    /\ UNCHANGED <<server, saveCall, icVars>>

GetSegmentInfo(ids) ==
    /\ dcResp' = IF isClosed(server) THEN DcResp("GetSegmentInfo", "UnexpectedError", serverNotServingErrMsg)
                 ELSE IF \E g \in ids : server.meta.segments[g] = "None"
                 THEN DcResp("GetSegmentInfo", "UnexpectedError", "failed to get segment")
                 ELSE DcResp("GetSegmentInfo", "Success", "")
    /\ UNCHANGED <<server, saveCall, icVars>>

\* segOk: every listed segment is found; descOk: rootCoord.DescribeCollection
\* answers; posOk: GetVChanPositions answers.
GetRecoveryInfo(segOk, descOk, posOk) ==
    /\ dcResp' = IF isClosed(server) THEN DcResp("GetRecoveryInfo", "UnexpectedError", serverNotServingErrMsg)
                 ELSE IF ~segOk
                 THEN DcResp("GetRecoveryInfo", "UnexpectedError", "failed to get segment")
                 ELSE IF ~descOk
                 THEN DcResp("GetRecoveryInfo", "UnexpectedError", "describe collection failed")
                 ELSE IF ~posOk
                 THEN DcResp("GetRecoveryInfo", "UnexpectedError", "get positions failed")
                 ELSE DcResp("GetRecoveryInfo", "Success", "")
    /\ UNCHANGED <<server, saveCall, icVars>>

\* metricsOk: getSystemInfoMetrics answers with its metrics.
DcGetMetrics(metricType, metricsOk) ==
    /\ dcResp' = IF isClosed(server)
                 THEN DcResp("GetMetrics", "UnexpectedError", "DataCoord is not healthy")
                 ELSE IF metricType = "invalid"
                 THEN DcResp("GetMetrics", "UnexpectedError", "failed to parse metric type")
                 ELSE IF metricType = "system_info"
                 THEN IF metricsOk THEN DcResp("GetMetrics", "Success", "")
                      ELSE DcResp("GetMetrics", "UnexpectedError", "system info failed")
                 ELSE DcResp("GetMetrics", "UnexpectedError", "unimplemented metric")
    /\ UNCHANGED <<server, saveCall, icVars>>

\* A handler that notifies the flush loop of every saved segment.
AlwaysFlushed(req) == TRUE

\* if req.Flushed
IsFlushed(req) == req.Flushed

SaveReturn(code, reason, call) ==
    [DcResp("SaveBinlogPaths", code, reason) EXCEPT
        !.serving = call.serving, !.req = call.req, !.updated = call.updated,
        !.dropped = call.dropped, !.sent = call.sent]

\* SaveBinlogPaths up to the isClosed check.
SaveBinlogPathsCheck(req) ==
    /\ saveCall.pc = "idle"
    /\ LET call == [IdleSave EXCEPT !.req = req, !.serving = server.isServing = "Healthy"]
       IN  IF isClosed(server)
           THEN /\ dcResp' = SaveReturn("UnexpectedError", serverNotServingErrMsg, call)
                /\ saveCall' = IdleSave
           ELSE /\ saveCall' = [call EXCEPT !.pc = "update"]
                /\ UNCHANGED dcResp
    /\ UNCHANGED <<server, icVars>>

\* meta.UpdateFlushSegmentsInfo, which saves the binlogs and checkpoints and sets
\* a flushed segment to Flushing, or fails (always for a segment that does not
\* exist), and what follows its error.
SaveBinlogPathsUpdate(ok) ==
    /\ saveCall.pc = "update"
    /\ IF ~ok \/ server.meta.segments[saveCall.req.SegmentID] = "None"
       THEN /\ dcResp' = SaveReturn("UnexpectedError", "save binlog and checkpoints failed",
                                    saveCall)
            /\ saveCall' = IdleSave
            /\ UNCHANGED server
       ELSE LET call == [saveCall EXCEPT !.updated = TRUE]
            IN  /\ server' = [server EXCEPT
                                 !.meta.saved = @ \cup {call.req.SegmentID},
                                 !.meta.segments[call.req.SegmentID] =
                                     IF call.req.Flushed THEN "Flushing" ELSE @]
                /\ IF IsFlushed(saveCall.req)
                   THEN saveCall' = [call EXCEPT !.pc = "drop"] /\ UNCHANGED dcResp
                   ELSE saveCall' = IdleSave /\ dcResp' = SaveReturn("Success", "", call)
    /\ UNCHANGED icVars

\* s.segmentManager.DropSegment(ctx, req.SegmentID)
SaveBinlogPathsDrop ==
    /\ saveCall.pc = "drop"
    /\ server' = [server EXCEPT !.segmentManager = @ \ {saveCall.req.SegmentID}]
    /\ saveCall' = [saveCall EXCEPT !.pc = "send", !.dropped = TRUE]
    /\ UNCHANGED <<dcResp, icVars>>

\* s.flushCh <- req.SegmentID, which waits while the channel is full, and the return.
SaveBinlogPathsSend ==
    /\ saveCall.pc = "send"
    /\ Len(server.flushCh) < MaxFlushCh
    /\ server' = [server EXCEPT !.flushCh = Append(@, saveCall.req.SegmentID)]
    /\ dcResp' = SaveReturn("Success", "", [saveCall EXCEPT !.sent = TRUE])
    /\ saveCall' = IdleSave
    /\ UNCHANGED icVars

\* The reader of the flush channel takes the segment id at its head.
FlushChReceive ==
    /\ server.flushCh # <<>>
    /\ server' = [server EXCEPT !.flushCh = Tail(@)]
    /\ UNCHANGED <<saveCall, dcResp, icVars>>

NextDataCoord ==
    \/ \E state \in {"Initializing", "Healthy", "Stopped"} : SetServing(state)
    \/ \E ok \in BOOLEAN : Flush(ok)
    \/ \E n \in 0..MaxAssign :
           \E reqs \in [1..n -> [CollectionID : 1..(MaxCollections + 1),
                                  ChannelName : 1..MaxChannels]],
              outs \in [1..n -> [loadOk : BOOLEAN, allocOk : BOOLEAN]] :
               AssignSegmentID(reqs, outs)
    \/ \E ids \in SUBSET (1..MaxSegments) : GetSegmentStates(ids)
    \/ \E g \in 1..MaxSegments : GetInsertBinlogPaths(g)
    \/ GetCollectionStatistics
    \/ GetPartitionStatistics
    \/ \E ids \in SUBSET (1..MaxSegments) : GetSegmentInfo(ids)
    \/ \E req \in [SegmentID : 1..MaxSegments, Flushed : BOOLEAN] :
           SaveBinlogPathsCheck(req)
    \/ \E ok \in BOOLEAN : SaveBinlogPathsUpdate(ok)
    \/ SaveBinlogPathsDrop
    \/ SaveBinlogPathsSend
    \/ FlushChReceive
    \/ \E segOk, descOk, posOk \in BOOLEAN : GetRecoveryInfo(segOk, descOk, posOk)
    \/ \E metricType \in {"invalid", "system_info", "other"}, metricsOk \in BOOLEAN :
           DcGetMetrics(metricType, metricsOk)

\* ------------------------------------------------------------------ Init
\* The record Init finds in the registry for a task admitted before a restart.
LoadedReq(id) == [IndexID |-> ((id - 1) % MaxIndexID) + 1, DataPaths |-> 1]

\* The coordinator after Init and Start: the metaTable holds the records it loaded
\* from the registry, every session of the snapshot has a background AddNode in
\* flight, and the state code is the one given.
InitFrom(reg, bs, live, code) ==
    /\ etcd = reg
    /\ indexBuildID2Meta = etcd
    /\ watchChan = <<>>
    /\ idAllocator = LET loaded == {id \in BuildIDs : reg[id] # NoMeta}
                     IN  IF loaded = {} THEN 1
                         ELSE 1 + CHOOSE x \in loaded : \A y \in loaded : y <= x
    /\ handlers = [h \in Handlers |-> IdleHandler]
    /\ IndexAddQueue = <<>>
    /\ dropCleanup = {}
    /\ okReturns = {}
    /\ droppedReturns = {}
    /\ sessions = live
    /\ departed = {}
    /\ lostVer = [id \in BuildIDs |-> -1]
    /\ eventChan = <<>>
    /\ adding = live
    /\ nodeClients = <<>>
    /\ priority = [n \in Nodes |-> 0]
    /\ assign = IdleAssign
    /\ recycle = IdleRecycle
    /\ workers = {}
    /\ blobs = bs
    /\ stateCode = code
    /\ initCall = InitDone
    /\ tsLoop = "running"
    /\ server = ServerInit
    /\ saveCall = IdleSave
    /\ dcResp = NoDcResp
    /\ faults = 0
    /\ resp = NoResp

\* The registry holds the records of loaded, as admitted, and the blob store is empty.
InitWith(loaded, live, code) ==
    InitFrom([id \in BuildIDs |->
                 IF id \in loaded THEN NewMeta(LoadedReq(id), id) ELSE NoMeta],
             {}, live, code)

\* The record of a task that re-assignment brought to Version v and whose build at
\* that version finished.
FinishedAt(id, v) ==
    [NewMeta(LoadedReq(id), id) EXCEPT
        !.State = "Finished", !.Version = v, !.NodeID = 1,
        !.IndexFilePaths = {<<id, v>>}, !.revision = 2 * v + 1]

\* The coordinator as NewIndexCoord leaves it, before Init: the registry holds the
\* records of an earlier run and the sessions of the IndexNodes that are up, the
\* coordinator has loaded nothing yet and its state code is Abnormal.
Constructed ==
    \E loaded \in SUBSET BuildIDs, live \in SUBSET Nodes :
        /\ etcd = [id \in BuildIDs |->
                      IF id \in loaded THEN NewMeta(LoadedReq(id), id) ELSE NoMeta]
        /\ indexBuildID2Meta = [id \in BuildIDs |-> NoMeta]
        /\ watchChan = <<>>
        /\ idAllocator = IF loaded = {} THEN 1
                         ELSE 1 + CHOOSE x \in loaded : \A y \in loaded : y <= x
        /\ handlers = [h \in Handlers |-> IdleHandler]
        /\ IndexAddQueue = <<>>
        /\ dropCleanup = {}
        /\ okReturns = {}
        /\ droppedReturns = {}
        /\ sessions = live
        /\ departed = {}
        /\ lostVer = [id \in BuildIDs |-> -1]
        /\ eventChan = <<>>
        /\ adding = {}
        /\ nodeClients = <<>>
        /\ priority = [n \in Nodes |-> 0]
        /\ assign = IdleAssign
        /\ recycle = IdleRecycle
        /\ workers = {}
        /\ blobs = {}
        /\ stateCode = "Abnormal"
        /\ initCall = NotCalled
        /\ tsLoop = "notStarted"
        /\ server = ServerInit
        /\ saveCall = IdleSave
        /\ dcResp = NoDcResp
        /\ faults = 0
        /\ resp = NoResp

\* Task 1 finished at a Version up to MaxStaleVersion; the blob store holds the index
\* files of that version and of the earlier versions in stale (the builds that wrote
\* their files before they were given up), at most MaxStale of them.
InitStale ==
    \E v \in 1..MaxStaleVersion, stale \in SUBSET (1..MaxStaleVersion) :
        /\ stale \subseteq 1..(v - 1)
        /\ Cardinality(stale) <= MaxStale
        /\ InitFrom([id \in BuildIDs |-> IF id = 1 THEN FinishedAt(1, v) ELSE NoMeta],
                    {<<1, j>> : j \in stale \cup {v}}, {1}, "Healthy")

\* An empty registry and no IndexNode session yet.
Init == InitWith({}, {}, "Healthy")

\* What each step of a client RPC answers, if it ends the call (else resp stays).
BuildIndexCheckResp(h, req) ==
    IF HasSameReqIDs(indexBuildID2Meta, req) # {}
    THEN Resp("BuildIndex", "Success", "already have same index", isHealthy)
    ELSE resp

BuildIndexEnqueueResp(h, ctxDone) ==
    IF ctxDone
    THEN Resp("BuildIndex", "UnexpectedError", "IndexAddQueue enqueue timeout",
              handlers[h].healthy)
    ELSE resp

SchedExecuteResp(regOk) ==
    IF AddTaskOk(Cur, Head(IndexAddQueue).indexBuildID, regOk) THEN resp
    ELSE Resp("BuildIndex", "UnexpectedError", "add task failed",
              handlers[Head(IndexAddQueue).h].healthy)

SchedFinishResp ==
    Resp("BuildIndex", "Success", "", handlers[Head(IndexAddQueue).h].healthy)

DropIndexResp(indexID, regOk) ==
    IF regOk THEN Resp("DropIndex", "Success", "", isHealthy)
    ELSE Resp("DropIndex", "UnexpectedError", "mark deleted failed", isHealthy)

DropCleanupResp(indexID) ==
    LET hs == {IndexAddQueue[k].h : k \in UselessAddTasks(IndexAddQueue, indexID)}
    IN  IF hs = {} THEN resp
        ELSE Resp("BuildIndex", "UnexpectedError", "canceled",
                  \A h \in hs : handlers[h].healthy)

\* ------------------------------------------------------ specifications
StateCodes == {"Initializing", "Healthy", "Abnormal"}

\* The whole coordinator: clients, the worker fleet, the loops.
Next ==
    \/ \E n \in Nodes : NodeJoin(n)
    \/ \E n \in Nodes : NodeLeave(n)
    \/ WatchNodeStep
    \/ \E n \in Nodes, dialOk \in BOOLEAN : AddNodeDone(n, dialOk)
    \/ \E code \in StateCodes : UpdateStateCode(code)
    \/ \E h \in Handlers, req \in Requests :
           BuildIndexCheck(h, req) /\ resp' = BuildIndexCheckResp(h, req)
    \/ \E h \in Handlers, ctxDone \in BOOLEAN :
           BuildIndexEnqueue(h, ctxDone) /\ resp' = BuildIndexEnqueueResp(h, ctxDone)
    \/ \E regOk \in BOOLEAN : SchedExecute(regOk) /\ resp' = SchedExecuteResp(regOk)
    \/ SchedFinish /\ resp' = SchedFinishResp
    \/ \E indexID \in IndexIDs, regOk \in BOOLEAN :
           DropIndex(indexID, regOk) /\ resp' = DropIndexResp(indexID, regOk)
    \/ \E indexID \in IndexIDs : DropCleanup(indexID) /\ resp' = DropCleanupResp(indexID)
    \/ \E id \in BuildIDs : GetIndexStatesRPC(<<id>>)
    \/ \E id \in BuildIDs : GetIndexFilePathsRPC(<<id>>)
    \/ \E metricType \in {"invalid", "system_info", "other"}, marshalOk \in BOOLEAN :
           GetMetricsRPC(metricType, marshalOk)
    \/ \E sessOk \in BOOLEAN : AssignTick(sessOk)
    \/ \E regOk, rpcOk \in BOOLEAN : AssignDispatch(regOk, rpcOk)
    \/ \E regOk \in BOOLEAN : AssignCommit(regOk)
    \/ \E t \in workers, result \in {"Finished", "Failed"} : WorkerCommit(t, result)
    \/ WatchMetaStep
    \/ RecycleTick
    \/ \E blobOk, regOk \in BOOLEAN, okJs \in SUBSET (1..MaxVersion) :
           RecycleStep(blobOk, okJs, regOk)
    \/ \E ok \in BOOLEAN : TsLoopTick(ok)

Spec == Init /\ [][Next]_vars

\* Admission: concurrent BuildIndex calls, DropIndex and the recycle loop.
NextAdmit ==
    \/ \E h \in Handlers, req \in Requests : BuildIndexCheck(h, req) /\ UNCHANGED resp
    \/ \E h \in Handlers, ctxDone \in BOOLEAN : BuildIndexEnqueue(h, ctxDone) /\ UNCHANGED resp
    \/ \E regOk \in BOOLEAN : SchedExecute(regOk) /\ UNCHANGED resp
    \/ SchedFinish /\ UNCHANGED resp
    \/ \E indexID \in IndexIDs, regOk \in BOOLEAN : DropIndex(indexID, regOk) /\ UNCHANGED resp
    \/ \E indexID \in IndexIDs : DropCleanup(indexID) /\ UNCHANGED resp
    \/ WatchMetaStep
    \/ RecycleTick
    \/ \E blobOk, regOk \in BOOLEAN, okJs \in SUBSET (1..MaxVersion) :
           RecycleStep(blobOk, okJs, regOk)

SpecAdmit == Init /\ [][NextAdmit]_vars

\* Assignment: one task loaded at startup, workers that join and leave, the
\* assignment loop, the workers' commits and the two watch loops.
NextAssign ==
    \/ \E n \in Nodes : NodeJoin(n)
    \/ \E n \in Nodes : NodeLeave(n)
    \/ WatchNodeStep
    \/ \E n \in Nodes, dialOk \in BOOLEAN : AddNodeDone(n, dialOk)
    \/ \E sessOk \in BOOLEAN : AssignTick(sessOk)
    \/ \E regOk, rpcOk \in BOOLEAN : AssignDispatch(regOk, rpcOk)
    \/ \E regOk \in BOOLEAN : AssignCommit(regOk)
    \/ \E t \in workers, result \in {"Finished", "Failed"} : WorkerCommit(t, result)
    \/ WatchMetaStep

SpecAssign == InitWith({1}, {1}, "Healthy") /\ [][NextAssign]_vars

\* Drop and recycle: one task loaded at startup and one worker, the assignment
\* loop, the worker's commits, DropIndex and the recycle loop.
NextRecycle ==
    \/ \E n \in Nodes, dialOk \in BOOLEAN : AddNodeDone(n, dialOk)
    \/ \E indexID \in IndexIDs, regOk \in BOOLEAN : DropIndex(indexID, regOk) /\ UNCHANGED resp
    \/ \E indexID \in IndexIDs : DropCleanup(indexID) /\ UNCHANGED resp
    \/ \E sessOk \in BOOLEAN : AssignTick(sessOk)
    \/ \E regOk, rpcOk \in BOOLEAN : AssignDispatch(regOk, rpcOk)
    \/ \E regOk \in BOOLEAN : AssignCommit(regOk)
    \/ \E t \in workers, result \in {"Finished", "Failed"} : WorkerCommit(t, result)
    \/ WatchMetaStep
    \/ RecycleTick
    \/ \E blobOk, regOk \in BOOLEAN, okJs \in SUBSET (1..MaxVersion) :
           RecycleStep(blobOk, okJs, regOk)

SpecRecycle == InitWith({1}, {1}, "Healthy") /\ [][NextRecycle]_vars

\* The recycle loop alone, on a task finished at a Version of one or two digits.
NextStale ==
    \/ RecycleTick
    \/ \E blobOk, regOk \in BOOLEAN, okJs \in SUBSET (1..MaxStaleVersion) :
           RecycleStep(blobOk, okJs, regOk)
    \/ WatchMetaStep

SpecStale == InitStale /\ [][NextStale]_vars

\* GetIndexStates while a loaded task is assigned, built, dropped and recycled, with
\* a registry and a blob store that answer.
NextStates ==
    \/ \E n \in Nodes : AddNodeDone(n, TRUE)
    \/ \E indexID \in IndexIDs : DropIndex(indexID, TRUE) /\ UNCHANGED resp
    \/ AssignTick(TRUE)
    \/ \E rpcOk \in BOOLEAN : AssignDispatch(TRUE, rpcOk)
    \/ AssignCommit(TRUE)
    \/ \E t \in workers, result \in {"Finished", "Failed"} : WorkerCommit(t, result)
    \/ WatchMetaStep
    \/ RecycleTick
    \/ \E okJs \in SUBSET (1..MaxVersion) : RecycleStep(TRUE, okJs, TRUE)
    \/ \E ids \in IdSeqs : GetIndexStatesRPC(ids)

SpecStates == InitWith({1}, {1}, "Healthy") /\ [][NextStates]_vars

\* GetMetrics while IndexNodes come and go and the state code changes.
NextMetrics ==
    \/ \E n \in Nodes : NodeJoin(n)
    \/ \E n \in Nodes : NodeLeave(n)
    \/ WatchNodeStep
    \/ \E n \in Nodes, dialOk \in BOOLEAN : AddNodeDone(n, dialOk)
    \/ \E code \in StateCodes : UpdateStateCode(code)
    \/ \E metricType \in {"invalid", "system_info", "other"}, marshalOk \in BOOLEAN :
           GetMetricsRPC(metricType, marshalOk)

SpecMetrics == InitWith({}, {1}, "Healthy") /\ [][NextMetrics]_vars

\* Init from construction to its return, with the background AddNode goroutines it
\* starts.
NextInit ==
    \/ \E ok \in BOOLEAN : InitConnect(ok)
    \/ \E sessOk \in BOOLEAN : InitSessions(sessOk)
    \/ \E ok \in BOOLEAN : InitAllocator(ok)
    \/ \E ok \in BOOLEAN : InitKV(ok)
    \/ \E ok \in BOOLEAN : InitSched(ok)
    \/ InitHealthy
    \/ \E n \in Nodes, dialOk \in BOOLEAN : AddNodeDone(n, dialOk)

SpecInit == Constructed /\ [][NextInit]_vars

\* Task 2 assigned, re-assigned after failed RPCs and lost nodes, built and recycled,
\* with a registry and a blob store that answer.
NextReassign ==
    \/ \E n \in Nodes : AddNodeDone(n, TRUE)
    \/ \E n \in Nodes : NodeLeave(n)
    \/ WatchNodeStep
    \/ AssignTick(TRUE)
    \/ \E rpcOk \in BOOLEAN : AssignDispatch(TRUE, rpcOk)
    \/ AssignCommit(TRUE)
    \/ \E t \in workers : WorkerCommit(t, "Finished")
    \/ WatchMetaStep
    \/ RecycleTick
    \/ \E okJs \in SUBSET (1..VersionCap(2)) :
           /\ recycle.pc = "loop"
           /\ okJs = 1..(Head(recycle.metas).Version - 1)
           /\ RecycleStep(TRUE, okJs, TRUE)

SpecReassign == InitWith({2}, {1, 2}, "Healthy") /\ [][NextReassign]_vars

\* The client RPCs and what they answer, from construction (state code Abnormal) on.
NextRPC ==
    \/ \E code \in StateCodes : UpdateStateCode(code)
    \/ \E req \in Requests : BuildIndexCheck(1, req) /\ resp' = BuildIndexCheckResp(1, req)
    \/ \E ctxDone \in BOOLEAN :
           BuildIndexEnqueue(1, ctxDone) /\ resp' = BuildIndexEnqueueResp(1, ctxDone)
    \/ \E regOk \in BOOLEAN : SchedExecute(regOk) /\ resp' = SchedExecuteResp(regOk)
    \/ SchedFinish /\ resp' = SchedFinishResp
    \/ \E indexID \in IndexIDs, regOk \in BOOLEAN :
           DropIndex(indexID, regOk) /\ resp' = DropIndexResp(indexID, regOk)
    \/ \E indexID \in IndexIDs : DropCleanup(indexID) /\ resp' = DropCleanupResp(indexID)
    \/ \E id \in BuildIDs : GetIndexStatesRPC(<<id>>)
    \/ \E id \in BuildIDs : GetIndexFilePathsRPC(<<id>>)
    \/ \E metricType \in {"invalid", "system_info", "other"}, marshalOk \in BOOLEAN :
           GetMetricsRPC(metricType, marshalOk)
    \/ WatchMetaStep

SpecRPC == InitWith({}, {}, "Abnormal") /\ [][NextRPC]_vars

\* ------------------------------------------------------------ properties
Present(store, id) == store[id] # NoMeta

\* C1: two successful BuildIndex calls that carry the same fingerprint, with no
\* DropIndex of the index between them, return the same IndexBuildID.
C1_SameFingerprintSameID ==
    \A r1, r2 \in okReturns : r1.req = r2.req => r1.id = r2.id

\* C2: for each fingerprint at most one record with MarkDeleted = FALSE exists.
C2_OneLiveRecordPerFingerprint ==
    \A id1, id2 \in BuildIDs :
        IF Present(etcd, id1) /\ Present(etcd, id2)
        THEN (~etcd[id1].MarkDeleted /\ ~etcd[id2].MarkDeleted
                 /\ etcd[id1].Req = etcd[id2].Req) => id1 = id2
        ELSE TRUE

\* C3: no step takes a record, in the registry or in the cache, from Version v to
\* a smaller Version.
C3_VersionNeverDecreases ==
    [][\A id \in BuildIDs :
          /\ IF Present(etcd, id) /\ Present(etcd', id)
             THEN etcd'[id].Version >= etcd[id].Version ELSE TRUE
          /\ IF Present(indexBuildID2Meta, id) /\ Present(indexBuildID2Meta', id)
             THEN indexBuildID2Meta'[id].Version >= indexBuildID2Meta[id].Version
             ELSE TRUE]_vars

\* A record that was dispatched twice, completed by a worker and then dropped.
C3_Witness ==
    \E id \in BuildIDs :
        IF Present(etcd, id)
        THEN etcd[id].Version > 1 /\ etcd[id].State = "Finished" /\ etcd[id].MarkDeleted
        ELSE FALSE

C5_ReassignedAtGreaterVersion ==
    \A id \in BuildIDs :
        IF Present(etcd, id) /\ lostVer[id] >= 0
        THEN (etcd[id].State = "InProgress" /\ etcd[id].NodeID \in sessions)
                 => etcd[id].Version > lostVer[id]
        ELSE TRUE

\* C6: the NodeID of an InProgress record is never 0 and always a ServerID that
\* has had a session.
C6_InProgressOnKnownNode ==
    \A id \in BuildIDs :
        /\ IF Present(etcd, id)
           THEN etcd[id].State = "InProgress"
                    => etcd[id].NodeID # 0 /\ etcd[id].NodeID \in sessions \cup departed
           ELSE TRUE
        /\ IF Present(indexBuildID2Meta, id)
           THEN indexBuildID2Meta[id].State = "InProgress"
                    => /\ indexBuildID2Meta[id].NodeID # 0
                       /\ indexBuildID2Meta[id].NodeID \in sessions \cup departed
           ELSE TRUE

\* A task is InProgress while some ServerID has never had a session.
C6_Witness ==
    /\ sessions \cup departed # Nodes
    /\ \E id \in BuildIDs :
           IF Present(etcd, id) THEN etcd[id].State = "InProgress" ELSE FALSE

\* C7: when the recycle loop removes the record of a dropped task, no blob whose
\* key begins with the task's IndexBuildID is left in the blob store.
C7_NoBlobAfterRecycle ==
    [][\A id \in BuildIDs :
          (recycle.pc = "loop" /\ Present(etcd, id) /\ ~Present(etcd', id))
              => \A b \in blobs' : ~HasPrefix(BlobKey(b), DeletedPrefix(id))]_vars

\* C8: the watch loop's handling of an event takes exactly 1 from the priority of
\* the pooled worker whose commit made the record Finished with that event, and
\* nothing from any other worker's.
C8_FinishedDecrementsOnce ==
    [][(watchChan # <<>> /\ watchChan' = Tail(watchChan))
          => \A n \in Nodes :
                 InPool(nodeClients, n)
                     => priority'[n] = priority[n]
                                          - (IF Head(watchChan).finBy = n THEN 1 ELSE 0)]_vars

\* C9: an RPC that began while the state code was not Healthy answers with the
\* unhealthy failure status.
C9_UnhealthyShortCircuits ==
    (resp.rpc # "none" /\ ~resp.healthy)
        => resp.ErrorCode = "UnexpectedError" /\ resp.Reason = "unhealthy"

\* C10: every RPC answers with a response that carries a status, and returns no error.
C10_StatusNotError ==
    resp.rpc # "none" => ~resp.isNil /\ ~resp.err

\* C11: a recycle step whose blob removal left a blob under one of the prefixes it
\* had to clear (the blob store refused it) leaves the record as it was, in the
\* registry and in the cache: no DeleteIndex, no UpdateRecycleState.
C11_MetaOnlyAfterBlobSuccess ==
    [][(recycle.pc = "loop" /\ recycle' # recycle)
          => LET meta == Head(recycle.metas)
                 id == meta.IndexBuildID
                 prefixes == IF meta.MarkDeleted THEN {DeletedPrefix(id)}
                             ELSE {VersionPrefix(id, j) : j \in 1..(meta.Version - 1)}
             IN  (\E b \in blobs', p \in prefixes : HasPrefix(BlobKey(b), p))
                     => /\ etcd'[id] = etcd[id]
                        /\ indexBuildID2Meta'[id] = indexBuildID2Meta[id]]_vars

\* C12: once a DropIndex that returned success, its background cleanup and a
\* BuildIndex call of that index that was in flight during the drop have all
\* finished, the record the call created is gone or has MarkDeleted = TRUE.
C12_DropCoversInFlightBuild ==
    \A r \in droppedReturns :
        IF r.req.IndexID \notin dropCleanup /\ Present(etcd, r.id)
        THEN etcd[r.id].MarkDeleted
        ELSE TRUE

\* C13: a step that removes a record from the registry (DeleteIndex, called by the
\* recycle loop or by the background cleanup of DropIndex) finds the record with
\* MarkDeleted = TRUE.
C13_DeletedOnlyIfMarked ==
    [][\A id \in BuildIDs :
          (Present(etcd, id) /\ ~Present(etcd', id)) => etcd[id].MarkDeleted]_vars

\* C14: a recycle step on a record that is not MarkDeleted and has Version v removes
\* only blobs of that task stored under versions 1..v-1: every blob it removes is one
\* of those, so the blobs under {IndexBuildID}/{v}/ stay.
C14_StaleRecyclingKeepsCurrent ==
    [][(recycle.pc = "loop" /\ recycle' # recycle /\ ~Head(recycle.metas).MarkDeleted)
          => LET meta == Head(recycle.metas)
             IN  blobs \ blobs' \subseteq
                     {<<meta.IndexBuildID, j>> : j \in 1..(meta.Version - 1)}]_vars

C15_WitnessRecycled ==
    /\ resp.rpc = "GetIndexStates"
    /\ resp.IndexBuildIDs = <<1>>
    /\ resp.States = <<"IndexStateNone">>
    /\ ~Present(etcd, 1)

\* C16: a system_info GetMetrics response that carries a topology has status Success
\* and exactly one connected-node entry per worker result, in the order of the
\* results: HasError with a reason for a worker whose GetMetrics failed (RPC error,
\* non-success status, undecodable response), the decoded info without error for
\* the others, however many workers failed.
C16_OneEntryPerWorker ==
    (resp.rpc = "GetMetrics" /\ "nodesMetrics" \in DOMAIN resp /\ resp.Reason # "marshal error")
        => /\ resp.ErrorCode = "Success" /\ ~resp.isNil /\ ~resp.err
           /\ Len(resp.ConnectedNodes) = Len(resp.nodesMetrics)
           /\ \A k \in 1..Len(resp.nodesMetrics) :
                  LET nm == resp.nodesMetrics[k]
                      entry == resp.ConnectedNodes[k]
                  IN  IF nm.outcome = "ok"
                      THEN ~entry.HasError /\ entry.infos = nm.node
                      ELSE entry.HasError /\ entry.ErrorReason # ""

\* Two workers pooled, one answered well and the other failed: the response is
\* Success with one good entry and one entry with HasError.
C16_Witness ==
    /\ resp.rpc = "GetMetrics"
    /\ "ConnectedNodes" \in DOMAIN resp
    /\ Len(resp.nodesMetrics) = 2
    /\ \E a, b \in 1..2 : /\ resp.nodesMetrics[a].outcome = "ok"
                           /\ resp.nodesMetrics[b].outcome # "ok"
                           /\ resp.ConnectedNodes[b].HasError

C17_WitnessHealthy ==
    /\ initCall.pc = "returned"
    /\ ~initCall.err
    /\ stateCode = "Healthy"
    /\ indexBuildID2Meta = etcd
    /\ Present(etcd, 1)

\* C20: once a task that is not MarkDeleted is Finished at a Version v > 1, every
\* build of it is over and the recycle loop has nothing left to do for it (the loop
\* is idle, the metaTable has caught up with the registry and GetUnusedIndexFiles no
\* longer returns the task), the record has Recycled = TRUE and no blob is left
\* under {IndexBuildID}/{j} for any j in 1..v-1.
C20_StaleVersionsRecycled ==
    \A id \in BuildIDs :
        IF /\ Present(etcd, id)
           /\ indexBuildID2Meta[id] = etcd[id]
           /\ recycle.pc = "idle"
           /\ id \notin GetUnusedIndexFiles(indexBuildID2Meta)
           /\ \A t \in workers : t.id # id
        THEN (etcd[id].State = "Finished" /\ ~etcd[id].MarkDeleted /\ etcd[id].Version > 1)
                 => /\ etcd[id].Recycled
                    /\ \A j \in 1..(etcd[id].Version - 1) : <<id, j>> \notin blobs
        ELSE TRUE

\* C21: a dispatch step of the assign loop in which UpdateVersion failed sends no
\* CreateIndex request and does not go on to BuildIndex and the priority change.
C21_FailedUpdateVersionSkips ==
    [][(assign.pc = "loop" /\ assign' # assign /\ faults' # faults)
          => workers' = workers /\ assign'.pc # "commit"]_vars

\* C22: a CreateIndex request that the assign loop sends carries the Version that
\* the task's record holds, in the registry and in the cache, when it is sent.
C22_RequestVersionIsStored ==
    [][\A t \in workers' \ workers :
          /\ IF Present(etcd', t.id) THEN t.ver = etcd'[t.id].Version ELSE TRUE
          /\ IF Present(indexBuildID2Meta', t.id)
             THEN t.ver = indexBuildID2Meta'[t.id].Version ELSE TRUE]_vars

\* ------------------------------------------------------------- the tick's range
\* The range of one tick (lines 757-792) over a snapshot longer than the lifecycle
\* specifications load: the loop's index, its break and its continue, with the
\* outcomes of PeekClient and of the CreateIndex RPC as inputs. The records of the
\* tasks are left out; IndexBuildID is the task's place in the snapshot.
MaxTasks == 24

TaskRange(n) == [i \in 1..n |-> [IndexBuildID |-> i, Version |-> 0]]

RangeTick(n) ==
    /\ assign.pc = "idle"
    /\ assign' = [pc |-> "loop", metas |-> TaskRange(n), index |-> 0, nodeID |-> 0]
    /\ UNCHANGED <<metaVars, admitVars, dropCleanup, nodeVars, recycle, workers, blobs,
                   stateCode, faults, resp, lifeVars>>

RangeBody(clientOk, rpcOk) ==
    /\ assign.pc = "loop"
    /\ assign' = IF ~clientOk THEN IdleAssign
                 ELSE IF ~rpcOk THEN NextTask(assign)
                 ELSE IF LimitReached(assign.index) THEN IdleAssign
                 ELSE NextTask(assign)
    /\ UNCHANGED <<metaVars, admitVars, dropCleanup, nodeVars, recycle, workers, blobs,
                   stateCode, faults, resp, lifeVars>>

NextRange ==
    \/ \E n \in 1..MaxTasks : RangeTick(n)
    \/ \E clientOk, rpcOk \in BOOLEAN : RangeBody(clientOk, rpcOk)

SpecRange == InitWith({}, {1}, "Healthy") /\ [][NextRange]_vars

\* C23: the task that a tick is processing is among the first taskLimit tasks of
\* the tick's snapshot (index counts from 0), whatever the outcomes of the RPCs.
C23_AtMostTaskLimitPerTick ==
    assign.pc = "loop" => assign.index + 1 <= taskLimit

\* A step of the assign loop in which the CreateIndex RPC to the peeked worker failed.
RpcFailedStep ==
    /\ assign.pc = "loop"
    /\ assign' # assign
    /\ assign'.pc # "commit"
    /\ ~ClientMissing(PeekClient(nodeClients, priority))

\* C24: the step in which the CreateIndex RPC of a task fails leaves the State and
\* the NodeID of the task's registry record as they were, does not lower its Version,
\* keeps the record among the unassigned ones if it was there, and changes no priority.
C24_FailedRpcLeavesTask ==
    [][RpcFailedStep
          => LET id == Head(assign.metas).IndexBuildID
             IN  /\ IF Present(etcd, id)
                    THEN /\ Present(etcd', id)
                         /\ etcd'[id].State = etcd[id].State
                         /\ etcd'[id].NodeID = etcd[id].NodeID
                         /\ etcd'[id].Version >= etcd[id].Version
                    ELSE TRUE
                 /\ IF Present(indexBuildID2Meta, id)
                    THEN /\ Present(indexBuildID2Meta', id)
                         /\ indexBuildID2Meta'[id].Version >= indexBuildID2Meta[id].Version
                    ELSE TRUE
                 /\ id \in GetUnassignedTasks(etcd, sessions)
                        => id \in GetUnassignedTasks(etcd', sessions)
                 /\ priority' = priority]_vars

\* The task's Version was bumped and the task is still Unissued, with no worker ever
\* gone from the pool and no registry failure: the CreateIndex RPC failed.
C24_Witness ==
    /\ departed = {}
    /\ faults = 0
    /\ nodeClients # <<>>
    /\ \E id \in BuildIDs :
           IF Present(etcd, id)
           THEN etcd[id].Version >= 1 /\ etcd[id].State = "Unissued" /\ etcd[id].NodeID = 0
           ELSE FALSE

\* C25: a tick that finds no live session takes up no task: it ends where it
\* began, before any UpdateVersion, CreateIndex or BuildIndex.
C25_NoLiveWorkerSkipsTick ==
    [][(assign.pc = "idle" /\ sessions = {}) => assign'.pc = "idle"]_vars

\* ------------------------------------------------------------- the tick's order
\* The record of a task that v failed dispatches left Unissued at Version v.
UnissuedAt(id, v) ==
    [NewMeta(LoadedReq(id), id) EXCEPT !.Version = v, !.revision = v + 1]

\* Both tasks loaded at startup, each at a Version an earlier run left it at.
InitOrder ==
    \E v1 \in 0..(VersionCap(1) - 1), v2 \in 0..(VersionCap(2) - 1) :
        InitFrom([id \in BuildIDs |-> UnissuedAt(id, IF id = 1 THEN v1 ELSE v2)],
                 {}, {1}, "Healthy")

\* The assign loop over two unassigned tasks, with a registry that answers.
NextOrder ==
    \/ \E n \in Nodes : AddNodeDone(n, TRUE)
    \/ AssignTick(TRUE)
    \/ \E rpcOk \in BOOLEAN : AssignDispatch(TRUE, rpcOk)
    \/ AssignCommit(TRUE)
    \/ \E t \in workers, result \in {"Finished", "Failed"} : WorkerCommit(t, result)
    \/ WatchMetaStep

SpecOrder == InitOrder /\ [][NextOrder]_vars

\* C26: when a tick goes from one task to the next, the next task's snapshot
\* Version is not smaller than that of the task it leaves.
C26_AscendingVersionOrder ==
    [][(assign.pc # "idle" /\ assign'.pc = "loop" /\ assign'.index = assign.index + 1)
          => Head(assign'.metas).Version >= Head(assign.metas).Version]_vars

\* A tick is at its second task, whose snapshot Version is greater than the one the
\* first task had in the snapshot (the first task has been bumped once since).
C26_Witness ==
    /\ assign.pc = "loop"
    /\ assign.index = 1
    /\ \E id \in BuildIDs :
           /\ id # Head(assign.metas).IndexBuildID
           /\ IF Present(etcd, id)
              THEN etcd[id].Version - 1 < Head(assign.metas).Version
                       /\ Head(assign.metas).Version > 0
              ELSE FALSE

\* ------------------------------------------------------- the periodic loops
\* The periodic loops with the failures of what they call: the allocator, the
\* registry, the worker RPC and the blob store. The coordinator is not stopped.
NextLoops ==
    \/ NextRecycle
    \/ \E ok \in BOOLEAN : TsLoopTick(ok)

SpecLoops == InitWith({1}, {1}, "Healthy") /\ [][NextLoops]_vars

\* C27: while the coordinator is not stopped no periodic loop has ended, whatever
\* calls of the allocator, the registry, a worker or the blob store have failed.
C27_LoopsOutliveFailures ==
    tsLoop = "running"

\* C28: when no tick is in progress and every watch event has been processed, the
\* priority of each pooled worker is the number of InProgress records that carry
\* its NodeID.
C28_PriorityCountsInProgress ==
    (assign.pc = "idle" /\ watchChan = <<>>)
        => \A n \in Nodes :
               InPool(nodeClients, n)
                   => priority[n] = Cardinality({id \in BuildIDs :
                          IF Present(etcd, id)
                          THEN etcd[id].State = "InProgress" /\ etcd[id].NodeID = n
                          ELSE FALSE})

\* C29: the assign loop sends no CreateIndex request for a task whose record is
\* InProgress on a worker that has a live session.
C29_NoRedispatchWhileWorkerLive ==
    [][\A t \in workers' \ workers :
          IF Present(etcd, t.id)
          THEN ~(etcd[t.id].State = "InProgress" /\ etcd[t.id].NodeID \in sessions)
          ELSE TRUE]_vars

\* ------------------------------------------------------------- the node pool
\* IndexNodes that come and go, the event loop and the background AddNode calls.
NextNodes ==
    \/ \E n \in Nodes : NodeJoin(n)
    \/ \E n \in Nodes : NodeLeave(n)
    \/ WatchNodeStep
    \/ \E n \in Nodes, dialOk \in BOOLEAN : AddNodeDone(n, dialOk)

SpecNodes == InitWith({}, {1}, "Healthy") /\ [][NextNodes]_vars

\* C30: once every session event has been processed and every background AddNode
\* has completed, the pool holds no worker whose session was deleted.
C30_NoDeletedWorkerInPool ==
    (eventChan = <<>> /\ adding = {})
        => \A n \in Nodes : InPool(nodeClients, n) => n \in sessions

\* ------------------------------------------------------- blobs of other tasks
\* The greatest IndexBuildID of a task whose index files share the blob store.
MaxOtherID == 12

\* Task 1 finished at Version v, dropped or not, with the files of every version it
\* went through; the blob store also holds the files of one version of another
\* task, whose record the loop is not handling.
InitOther ==
    \E v \in 1..VersionCap(2), dropped \in BOOLEAN, b \in 2..MaxOtherID, w \in 1..MaxVersion :
        InitFrom([id \in BuildIDs |->
                     IF id = 1
                     THEN [FinishedAt(1, v) EXCEPT !.MarkDeleted = dropped]
                     ELSE NoMeta],
                 {<<1, j>> : j \in 1..v} \cup {<<b, w>>}, {1}, "Healthy")

\* The recycle loop alone, with a blob store and a registry that answer or fail.
NextOther ==
    \/ RecycleTick
    \/ \E blobOk, regOk \in BOOLEAN, okJs \in SUBSET (1..VersionCap(2)) :
           RecycleStep(blobOk, okJs, regOk)
    \/ WatchMetaStep

SpecOther == InitOther /\ [][NextOther]_vars

\* C31: a recycle step on the record of one task removes no blob stored under the
\* IndexBuildID of another task.
C31_RecycleKeepsOtherTasksBlobs ==
    [][(recycle.pc = "loop" /\ recycle' # recycle)
          => \A b \in blobs :
                 b[1] # Head(recycle.metas).IndexBuildID => b \in blobs']_vars

\* C32: no step changes the State, the Version or the NodeID of a registry record
\* that is Finished or Failed.
C32_CompletedRecordIsFrozen ==
    [][\A id \in BuildIDs :
          IF Present(etcd, id) /\ Present(etcd', id)
          THEN etcd[id].State \in {"Finished", "Failed"}
                   => /\ etcd'[id].State = etcd[id].State
                      /\ etcd'[id].Version = etcd[id].Version
                      /\ etcd'[id].NodeID = etcd[id].NodeID
          ELSE TRUE]_vars

\* C33: the assign loop sends a CreateIndex request only for a task whose record
\* exists and has MarkDeleted = FALSE.
C33_NoDispatchOfDroppedTask ==
    [][\A t \in workers' \ workers :
          IF Present(etcd, t.id) THEN ~etcd[t.id].MarkDeleted ELSE FALSE]_vars

\* ------------------------------------------------------- data coordinator RPCs
\* The data coordinator from before it serves, through start and stop.
SpecDataCoord == InitWith({}, {}, "Healthy") /\ [][NextDataCoord]_vars

\* C34: a datacoord RPC that finds the server not healthy returns a status other
\* than Success, and while the server is not healthy and no call is past its
\* check, no step changes the segment metadata, the segment manager or the
\* cluster's watch set, or puts a segment id on the flush channel.
C34_NotServingRefusesAndKeepsState ==
    [][/\ (dcResp' # dcResp /\ ~dcResp'.serving)
             => /\ dcResp'.ErrorCode # "Success"
                /\ ~dcResp'.updated /\ ~dcResp'.dropped /\ ~dcResp'.sent
       /\ (server.isServing # "Healthy" /\ saveCall.pc = "idle")
             => /\ server'.meta = server.meta
                /\ server'.segmentManager = server.segmentManager
                /\ server'.cluster = server.cluster
                /\ Len(server'.flushCh) <= Len(server.flushCh)
                /\ saveCall'.pc = "idle"]_vars

\* A stopped server that had opened a second segment has refused a SaveBinlogPaths
\* call for a flushed segment, which it still manages.
C34_Witness ==
    /\ server.isServing = "Stopped"
    /\ dcResp.rpc = "SaveBinlogPaths"
    /\ ~dcResp.serving
    /\ dcResp.Reason = serverNotServingErrMsg
    /\ dcResp.req.Flushed
    /\ dcResp.req.SegmentID \in server.segmentManager
    /\ server.meta.segments[2] # "None"

\* C35: a SaveBinlogPaths call has dropped the segment from the segment manager and
\* sent its id on the flush channel exactly when the server was serving, the
\* metadata update succeeded and the request had Flushed set; a call whose update
\* did not succeed returns UnexpectedError with neither done; and a segment leaves
\* the segment manager, or its id enters the flush channel, only after the
\* metadata update of the call has saved it.
C35_DropAndNotifyOnlyAfterFlushedUpdate ==
    [][/\ dcResp'.rpc = "SaveBinlogPaths"
             => /\ (dcResp'.dropped /\ dcResp'.sent)
                       <=> (dcResp'.serving /\ dcResp'.updated /\ dcResp'.req.Flushed)
                /\ dcResp'.dropped <=> dcResp'.sent
                /\ ~dcResp'.updated
                       => /\ dcResp'.ErrorCode = "UnexpectedError"
                          /\ ~dcResp'.dropped /\ ~dcResp'.sent
                /\ dcResp'.updated => dcResp'.ErrorCode = "Success"
       /\ \A g \in server.segmentManager \ server'.segmentManager :
             /\ saveCall.updated /\ saveCall.req.Flushed /\ saveCall.req.SegmentID = g
             /\ g \in server.meta.saved
       /\ Len(server'.flushCh) > Len(server.flushCh)
             => /\ saveCall.updated /\ saveCall.req.Flushed
                /\ server'.flushCh = Append(server.flushCh, saveCall.req.SegmentID)
                /\ saveCall.req.SegmentID \in server.meta.saved]_vars

\* A call for the managed segment with Flushed set has returned Success: the
\* segment is saved, no longer managed, and its id is on the flush channel.
C35_Witness ==
    /\ dcResp.rpc = "SaveBinlogPaths"
    /\ dcResp.ErrorCode = "Success"
    /\ dcResp.serving /\ dcResp.updated /\ dcResp.req.Flushed
    /\ dcResp.dropped /\ dcResp.sent
    /\ dcResp.req.SegmentID = 1
    /\ 1 \in server.meta.saved
    /\ 1 \notin server.segmentManager
    /\ server.flushCh = <<1>>

====
